---- MODULE Spec2Model ----
(***************************************************************************)
(* A model of src/inspector.py: the error classifier                       *)
(* (AdvancedErrorHandler) and the code inspector (CodeInspector), which    *)
(* parses a source, executes it in the host interpreter with exec() under  *)
(* redirected streams, classifies the fault and assembles a report.        *)
(*                                                                         *)
(* Python values are modelled as follows: a dict is a record (its keys are *)
(* the record's DOMAIN), None is <<>> and a value that may be None is      *)
(* boxed as <<v>>; an exception object is a record [type, msg]; the        *)
(* outcome of a call is Ret(v) or Raise(e).                                *)
(***************************************************************************)
EXTENDS Integers, Sequences, FiniteSets, TLC

\* ------------------------------------------------------------------ bounds

\* The longest body (statements before the final one) of an inspected source.
MaxStmts == 2
\* The clock saturates here: elapsed time is not counted beyond it.
MaxClock == 7
\* The threads of the host that may call the inspector; Spec runs the calls
\* of one thread, one after the other.
Threads == {1, 2}
SeqThreads == {1}

\* runtime_execution(self, code, timeout: float = 5.0)
DefaultTimeout == 5

\* ------------------------------------------------------------ Python values

None == <<>>
Some(v) == <<v>>
Ret(v) == [ok |-> TRUE, val |-> v]
Raise(e) == [ok |-> FALSE, exc |-> e]

\* The host's own stream (what sys.stdout / sys.stderr are before any
\* redirection); a thread id t names the StringIO of thread t's current call.
HostStream == 0

\* --------------------------------------------------------------- exceptions

\* The keys of AdvancedErrorHandler.ERROR_TYPES.
TableKinds ==
    {"SyntaxError", "IndentationError", "TypeError", "ValueError", "NameError",
     "AttributeError", "IndexError", "KeyError", "ZeroDivisionError",
     "FileNotFoundError", "MemoryError"}

\* Exception classes the inspected code can raise that are not keys of the
\* table: built-in ones, a class named Timeout, and two classes the inspected
\* code defines itself whose __str__ raises (BadStr: __str__ raises
\* ValueError('boom'); BadStrSelf: __str__ raises another BadStrSelf).
OtherKinds ==
    {"RuntimeError", "TimeoutError", "Timeout", "RecursionError", "BadStr", "BadStrSelf"}

\* Classes that derive from BaseException but not from Exception.
BaseOnlyKinds == {"SystemExit", "KeyboardInterrupt"}

ExcKinds == TableKinds \cup OtherKinds \cup BaseOnlyKinds

\* str(e) of a fault the interpreter or the inspected code raises.
MessageOf(kind) ==
    CASE kind = "TypeError" -> "unsupported operand type(s) for +: 'int' and 'str'"
      [] kind = "IndexError" -> "list index out of range"
      [] kind = "KeyError" -> "'c'"
      [] kind = "ZeroDivisionError" -> "division by zero"
      [] kind = "NameError" -> "name is not defined"
      [] kind = "SyntaxError" -> "invalid syntax"
      [] kind = "IndentationError" -> "expected an indented block"
      [] kind = "RecursionError" -> "maximum recursion depth exceeded"
      [] kind = "SystemExit" -> "3"
      [] OTHER -> "message"

Exc(kind) == [type |-> kind, msg |-> MessageOf(kind)]

\* isinstance(e, Exception): what `except Exception` catches.
IsException(e) == e.type \notin BaseOnlyKinds

\* The test gone wrong: the class itself only, its subclasses left out.
IsSyntaxError_exact(e) == e.type = "SyntaxError"

\* isinstance(e, SyntaxError): IndentationError derives from SyntaxError.
IsSyntaxError(e) == e.type \in {"SyntaxError", "IndentationError"}

\* str(e). A str instance converts to itself; an exception converts to its
\* message unless its class overrides __str__ to raise.
str(e) ==
    IF e.type = "BadStr" THEN Raise([type |-> "ValueError", msg |-> "boom"])
    ELSE IF e.type = "BadStrSelf" THEN Raise(e)
    ELSE Ret(e.msg)

\* traceback.format_exc(): the text of the exception being handled, or the
\* fixed text for "no exception is being handled".
format_exc(handling) ==
    IF handling = None
    THEN [text |-> "NoneType: None", exc |-> "NoneType"]
    ELSE [text |-> "Traceback (most recent call last)", exc |-> handling[1].type]

\* --------------------------------------------------------- inspected sources

\* The statements of a source's body, each standing for this Python text:
\*   print      print('o')
\*   eprint     import sys; sys.stderr.write('e')
\*   assign     x = 1
\*   use        print(x)
\*   setbuiltin import builtins; builtins.leak = 1
\*   useleak    print(leak)
\*   patch      import sys
\*              sys.modules['inspector'].AdvancedErrorHandler.ERROR_TYPES.pop('TypeError')
\*   defcall    def f(n): return 1 if n == 0 else n * f(n - 1)
\*              f(3)
BodyStmts ==
    {"print", "eprint", "assign", "use", "setbuiltin", "useleak", "patch", "defcall"}

\* The statements static_analysis is given besides, for their structure:
\*   if         if a: pass
\*   ifor       if a or b: pass
\*   and3       x = a and b and c
\*   for        for i in y: pass
\*   try1       try: pass
\*              except E: pass
\*   with       with a: pass
\*   asyncwith  async def g():
\*                  async with a: pass
\*   match1     match x:
\*                  case _: pass
\*   match2     match x:
\*                  case 1: pass
\*                  case _: pass
StructStmts ==
    {"assign", "if", "ifor", "and3", "for", "try1", "with", "asyncwith", "match1",
     "match2"}

\* How a source ends: it falls off its end ("none"), never ends
\* ("loop": while True: pass) or raises an exception of some class.
RaisedKinds ==
    {"TypeError", "ValueError", "IndexError", "KeyError", "ZeroDivisionError",
     "RuntimeError", "SystemExit", "BadStr", "BadStrSelf"}
Finals == {"none", "loop"} \cup RaisedKinds

\* What ast.parse and compile make of the text: "ok", or the class of the
\* fault both raise (RecursionError: an expression nested too deeply), or
\* "LateSyntaxError": ast.parse accepts the text and compile raises
\* SyntaxError (a return outside of any function).
ParseKinds == {"ok", "SyntaxError", "IndentationError", "RecursionError", "LateSyntaxError"}

\* The position (lineno, offset) of a syntax fault; a source containing a
\* null byte is a SyntaxError that carries no position.
SyntaxPositions == {<<Some(1), Some(6)>>, <<Some(2), Some(1)>>, <<None, None>>}

SeqsUpTo(S, n) == UNION {[1..k -> S] : k \in 0..n}

Sources ==
    [parse : {"ok"}, pos : {<<None, None>>}, body : SeqsUpTo(BodyStmts, MaxStmts),
     final : Finals]
    \cup [parse : {"SyntaxError", "IndentationError"}, pos : SyntaxPositions,
          body : {<<>>}, final : {"none"}]
    \cup [parse : {"RecursionError", "LateSyntaxError"}, pos : {<<None, None>>},
          body : {<<>>}, final : {"none"}]

NoSource == [parse |-> "ok", pos |-> <<None, None>>, body |-> <<>>, final |-> "none"]

\* The classes of the nodes ast.walk yields for a statement; a BoolOp node
\* carries the number of its operands.
Node(cls) == [cls |-> cls, values |-> 0]
BoolOp(n) == [cls |-> "BoolOp", values |-> n]
Nodes(classes) == [i \in 1..Len(classes) |-> Node(classes[i])]

StmtNodes(stmt) ==
    CASE stmt = "print" -> Nodes(<<"Expr", "Call", "Name", "Constant">>)
      [] stmt = "eprint" -> Nodes(<<"Import", "Expr", "Call", "Attribute", "Name">>)
      [] stmt = "assign" -> Nodes(<<"Assign", "Name", "Constant">>)
      [] stmt = "use" -> Nodes(<<"Expr", "Call", "Name", "Name">>)
      [] stmt = "setbuiltin" -> Nodes(<<"Import", "Assign", "Attribute", "Name">>)
      [] stmt = "useleak" -> Nodes(<<"Expr", "Call", "Name", "Name">>)
      [] stmt = "patch" -> Nodes(<<"Import", "Expr", "Call", "Attribute", "Subscript">>)
      [] stmt = "defcall" ->
            Nodes(<<"FunctionDef", "Return", "IfExp", "Compare", "BinOp", "Call",
                    "Expr", "Call">>)
      [] stmt = "if" -> Nodes(<<"If", "Name", "Pass">>)
      [] stmt = "ifor" -> <<Node("If"), BoolOp(2), Node("Pass"), Node("Name"), Node("Name")>>
      [] stmt = "and3" ->
            <<Node("Assign"), Node("Name"), BoolOp(3), Node("Name"), Node("Name"),
              Node("Name")>>
      [] stmt = "for" -> Nodes(<<"For", "Name", "Name", "Pass">>)
      [] stmt = "try1" -> Nodes(<<"Try", "Pass", "ExceptHandler", "Name", "Pass">>)
      [] stmt = "with" -> Nodes(<<"With", "withitem", "Pass", "Name">>)
      [] stmt = "asyncwith" ->
            Nodes(<<"AsyncFunctionDef", "arguments", "AsyncWith", "withitem", "Pass",
                    "Name">>)
      [] stmt = "match1" -> Nodes(<<"Match", "Name", "match_case", "MatchAs", "Pass">>)
      [] stmt = "match2" ->
            Nodes(<<"Match", "Name", "match_case", "match_case", "MatchValue", "Pass",
                    "MatchAs", "Pass", "Constant">>)
      [] stmt = "none" -> <<>>
      [] stmt = "loop" -> Nodes(<<"While", "Constant", "Pass">>)
      [] stmt \in {"BadStr", "BadStrSelf"} ->
            Nodes(<<"ClassDef", "Name", "FunctionDef", "Raise", "Call", "Raise", "Call">>)
      [] OTHER -> Nodes(<<"Raise", "Call", "Name">>)

RECURSIVE WalkBody(_)
WalkBody(body) ==
    IF body = <<>> THEN <<>> ELSE StmtNodes(Head(body)) \o WalkBody(Tail(body))

\* ast.walk(tree): every node of the tree.
ast_walk(tree) == <<Node("Module")>> \o WalkBody(tree.body) \o StmtNodes(tree.final)

\* ast.parse(code): the tree, or the fault raised.
ast_parse(code) ==
    IF code.parse \in {"ok", "LateSyntaxError"} THEN Ret(code)
    ELSE Raise([type |-> code.parse, msg |-> MessageOf(code.parse),
                lineno |-> code.pos[1], offset |-> code.pos[2]])

\* -------------------------------------------------------- the program state

VARIABLES
    ERROR_TYPES,     \* AdvancedErrorHandler.ERROR_TYPES, a class attribute
    builtins_ns,     \* names added to the interpreter's builtins module
    sys_stdout,      \* sys.stdout: HostStream or the StringIO of a thread's call
    sys_stderr,      \* sys.stderr, likewise
    host_out,        \* the threads whose text reached the host's own streams
    pc,              \* each thread's position in comprehensive_inspection
    code,            \* the source each thread's call inspects
    ip,              \* the next body statement exec() runs
    static_res,      \* static_analysis (the local of comprehensive_inspection)
    result,          \* execution_result / runtime_result
    pending,         \* the exception propagating in the thread, or None
    old_out,         \* redirect_stdout's saved target
    old_err,         \* redirect_stderr's saved target
    elapsed,         \* time.time() - start_time, in ticks
    local_vars,      \* the local_vars dict of the call (its keys)
    stdout_capture,  \* the text written to each call's stdout StringIO
    stderr_capture,  \* the text written to each call's stderr StringIO
    report,          \* what comprehensive_inspection returned, or None
    prev,            \* the report of the call before, on the same source, or None
    carg,            \* classify_error called directly: its argument
    cret,            \* ... and its outcome
    sarg,            \* analyze_and_suggest_fix called directly: its error_info
    sret,            \* ... and the list it returned
    static_arg,      \* static_analysis called directly: its source
    static_ret       \* ... and its outcome

procVars == <<ERROR_TYPES, builtins_ns, sys_stdout, sys_stderr, host_out>>
callVars ==
    <<pc, code, ip, static_res, result, pending, old_out, old_err, elapsed,
      local_vars, stdout_capture, stderr_capture, report, prev>>
clsVars == <<carg, cret, sarg, sret, static_arg, static_ret>>
vars == <<procVars, callVars, clsVars>>

\* ------------------------------------------------------ AdvancedErrorHandler

ErrorTypesTable ==
    [SyntaxError |->
        [category |-> "Syntax", severity |-> "critical",
         general_advice |->
            "Check code syntax, indentation, and language-specific constructs."],
     IndentationError |->
        [category |-> "Syntax", severity |-> "critical",
         general_advice |->
            "Ensure consistent indentation. Use spaces or tabs consistently."],
     TypeError |->
        [category |-> "Type Mismatch", severity |-> "high",
         general_advice |-> "Verify type compatibility and type conversions."],
     ValueError |->
        [category |-> "Value Error", severity |-> "high",
         general_advice |-> "Check input values and their constraints."],
     NameError |->
        [category |-> "Reference", severity |-> "high",
         general_advice |-> "Ensure all variables are defined before use."],
     AttributeError |->
        [category |-> "Attribute", severity |-> "medium",
         general_advice |-> "Verify object attributes and method calls."],
     IndexError |->
        [category |-> "Indexing", severity |-> "high",
         general_advice |-> "Check array/list indexing and bounds."],
     KeyError |->
        [category |-> "Dictionary", severity |-> "high",
         general_advice |-> "Verify dictionary key existence before access."],
     ZeroDivisionError |->
        [category |-> "Arithmetic", severity |-> "high",
         general_advice |-> "Add checks to prevent division by zero."],
     FileNotFoundError |->
        [category |-> "File System", severity |-> "high",
         general_advice |-> "Verify file paths and permissions."],
     MemoryError |->
        [category |-> "Resource", severity |-> "critical",
         general_advice |->
            "Optimize memory usage, handle large data more efficiently."]]

\* The default of cls.ERROR_TYPES.get(error_type, {...}).
UnknownInfo ==
    [category |-> "Unknown", severity |-> "low",
     general_advice |-> "Unexpected error occurred."]

\* The lookup gone wrong: the key is never found (as when the table is
\* searched for str(type(error)) instead of the class name).
error_info_get_nolookup(error_type) == UnknownInfo

\* cls.ERROR_TYPES.get(error_type, default)
error_info_get(error_type) ==
    IF error_type \in DOMAIN ERROR_TYPES THEN ERROR_TYPES[error_type] ELSE UnknownInfo

\* classify_error(cls, error), called while `handling` (None, or the boxed
\* exception of the enclosing except clause) is being handled.
classify_error(error, handling) ==
    LET error_type == error.type
        error_info == error_info_get(error_type)
        message == str(error)
    IN  IF ~message.ok THEN Raise(message.exc)
        ELSE Ret([type |-> error_type,
                  message |-> message.val,
                  category |-> error_info.category,
                  severity |-> error_info.severity,
                  general_advice |-> error_info.general_advice,
                  traceback |-> format_exc(handling)])

\* -------------------------------------------------------------- CodeInspector

CountNodes(walk, classes) == Cardinality({i \in 1..Len(walk) : walk[i].cls \in classes})

\* The classes _calculate_complexity adds one for.
ComplexityClasses ==
    {"If", "While", "For", "Try", "ExceptHandler", "AsyncFor", "AsyncWith", "Match"}

RECURSIVE ComplexityOf(_)
ComplexityOf(walk) ==
    IF walk = <<>> THEN 0
    ELSE (IF Head(walk).cls \in ComplexityClasses THEN 1 ELSE 0)
         + (IF Head(walk).cls = "BoolOp" THEN Head(walk).values - 1 ELSE 0)
         + ComplexityOf(Tail(walk))

_calculate_complexity(tree) == 1 + ComplexityOf(ast_walk(tree))

\* static_analysis(self, code): the findings, or the fault it lets through
\* (it catches SyntaxError only).
static_analysis(c) ==
    LET parsed == ast_parse(c)
    IN  IF parsed.ok
        THEN Ret([syntax_valid |-> TRUE,
                  function_count |-> CountNodes(ast_walk(parsed.val), {"FunctionDef"}),
                  class_count |-> CountNodes(ast_walk(parsed.val), {"ClassDef"}),
                  import_count |->
                      CountNodes(ast_walk(parsed.val), {"Import", "ImportFrom"}),
                  complexity_score |-> _calculate_complexity(parsed.val)])
        ELSE IF IsSyntaxError(parsed.exc)
        THEN Ret([syntax_valid |-> FALSE,
                  syntax_error |->
                      [message |-> parsed.exc.msg,
                       line |-> parsed.exc.lineno,
                       offset |-> parsed.exc.offset]])
        ELSE Raise(parsed.exc)

\* The suggestion templates of analyze_and_suggest_fix, by their 'fix' text.
Suggestion(fix, example, code_hint) ==
    [fix |-> fix, example |-> example, code_hint |-> code_hint]

GenericSuggestion ==
    Suggestion("Review and debug code",
               "Carefully examine the code context and error message",
               "# Requires manual inspection")

\* The fallback gone: no suggestion when no rule matches.
analyze_and_suggest_fix_nofallback(error_info) == <<>>

\* analyze_and_suggest_fix(self, code, error_info)
analyze_and_suggest_fix(error_info) ==
    LET error_type == error_info.type
        suggestions ==
            IF error_type = "TypeError"
            THEN <<Suggestion("Add type conversion or type checking",
                              "Ensure consistent types or use explicit type conversion",
                              "if not isinstance(value, expected_type): value = type_conversion(value)")>>
            ELSE IF error_type = "ValueError"
            THEN <<Suggestion("Validate input values",
                              "Add input validation before processing",
                              "if not validate_condition(value): raise ValueError(\"Invalid input\")")>>
            ELSE IF error_type = "IndexError"
            THEN <<Suggestion("Add bounds checking",
                              "Check list length before indexing",
                              "if index < len(my_list): value = my_list[index]")>>
            ELSE IF error_type = "KeyError"
            THEN <<Suggestion("Use .get() method or check key existence",
                              "my_dict.get(key, default_value)",
                              "value = my_dict.get(key, default_value)")>>
            ELSE IF error_type = "ZeroDivisionError"
            THEN <<Suggestion("Add zero division check",
                              "if denominator != 0: result = numerator / denominator",
                              "if denominator != 0: result = numerator / denominator else: handle_zero_division()")>>
            ELSE <<>>
    IN  IF suggestions = <<>> THEN <<GenericSuggestion>> ELSE suggestions

\* type(error_info['type'])(error_info['message']): error_info['type'] is the
\* class NAME, a str, so type(...) is the class str and the call builds a str
\* instance from the message.
rebuilt_error(error_info) == [type |-> "str", msg |-> error_info.message]

\* The execution_result dict runtime_execution starts from.
InitialResult == [success |-> FALSE, output |-> None, runtime |-> None, error |-> None]

\* ------------------------------------------------------------ initial state

Init ==
    /\ ERROR_TYPES = ErrorTypesTable
    /\ builtins_ns = {}
    /\ sys_stdout = HostStream
    /\ sys_stderr = HostStream
    /\ host_out = {}
    /\ pc = [t \in Threads |-> "idle"]
    /\ code = [t \in Threads |-> NoSource]
    /\ ip = [t \in Threads |-> 1]
    /\ static_res = [t \in Threads |-> None]
    /\ result = [t \in Threads |-> None]
    /\ pending = [t \in Threads |-> None]
    /\ old_out = [t \in Threads |-> HostStream]
    /\ old_err = [t \in Threads |-> HostStream]
    /\ elapsed = [t \in Threads |-> 0]
    /\ local_vars = [t \in Threads |-> {}]
    /\ stdout_capture = [t \in Threads |-> <<>>]
    /\ stderr_capture = [t \in Threads |-> <<>>]
    /\ report = [t \in Threads |-> None]
    /\ prev = [t \in Threads |-> None]
    /\ carg = None
    /\ cret = None
    /\ sarg = None
    /\ sret = None
    /\ static_arg = None
    /\ static_ret = None

Tick(e) == IF e < MaxClock THEN e + 1 ELSE e

\* ---------------------------------------------- comprehensive_inspection

\* The host calls comprehensive_inspection(code) in thread t.
Call(t, src) ==
    /\ pc[t] = "idle"
    /\ pc' = [pc EXCEPT ![t] = "static"]
    /\ code' = [code EXCEPT ![t] = src]
    /\ ip' = [ip EXCEPT ![t] = 1]
    /\ static_res' = [static_res EXCEPT ![t] = None]
    /\ result' = [result EXCEPT ![t] = None]
    /\ pending' = [pending EXCEPT ![t] = None]
    /\ elapsed' = [elapsed EXCEPT ![t] = 0]
    /\ local_vars' = [local_vars EXCEPT ![t] = {}]
    /\ report' = [report EXCEPT ![t] = None]
    /\ UNCHANGED <<procVars, clsVars, prev, old_out, old_err, stdout_capture, stderr_capture>>

\* The static phase without its except clause: a fault of static_analysis
\* ends the call.
StaticPhase_abort(t) ==
    /\ pc[t] = "static"
    /\ LET r == static_analysis(code[t])
       IN  IF r.ok
           THEN /\ static_res' = [static_res EXCEPT ![t] = r.val]
                /\ pc' = [pc EXCEPT ![t] = "runtime"]
                /\ UNCHANGED pending
           ELSE /\ pending' = [pending EXCEPT ![t] = Some(r.exc)]
                /\ pc' = [pc EXCEPT ![t] = "raised"]
                /\ UNCHANGED static_res
    /\ UNCHANGED <<procVars, clsVars, prev, code, ip, result, old_out, old_err, elapsed,
                   local_vars, stdout_capture, stderr_capture, report>>

\* The static phase: static_analysis(code), a fault of it classified.
StaticPhase(t) ==
    /\ pc[t] = "static"
    /\ LET r == static_analysis(code[t])
           c == classify_error(r.exc, Some(r.exc))
       IN  IF r.ok
           THEN /\ static_res' = [static_res EXCEPT ![t] = r.val]
                /\ pc' = [pc EXCEPT ![t] = "runtime"]
                /\ UNCHANGED pending
           ELSE IF IsException(r.exc) /\ c.ok
           THEN /\ static_res' = [static_res EXCEPT ![t] = [error |-> Some(c.val)]]
                /\ pc' = [pc EXCEPT ![t] = "runtime"]
                /\ UNCHANGED pending
           ELSE /\ pending' =
                      [pending EXCEPT ![t] = Some(IF IsException(r.exc) THEN c.exc ELSE r.exc)]
                /\ pc' = [pc EXCEPT ![t] = "raised"]
                /\ UNCHANGED static_res
    /\ UNCHANGED <<procVars, clsVars, prev, code, ip, result, old_out, old_err, elapsed,
                   local_vars, stdout_capture, stderr_capture, report>>

\* runtime_execution begins: the two StringIO, start_time, execution_result,
\* and redirect_stdout.__enter__.
RuntimeBegin(t) ==
    /\ pc[t] = "runtime"
    /\ stdout_capture' = [stdout_capture EXCEPT ![t] = <<>>]
    /\ stderr_capture' = [stderr_capture EXCEPT ![t] = <<>>]
    /\ elapsed' = [elapsed EXCEPT ![t] = 0]
    /\ result' = [result EXCEPT ![t] = InitialResult]
    /\ old_out' = [old_out EXCEPT ![t] = sys_stdout]
    /\ sys_stdout' = t
    /\ pc' = [pc EXCEPT ![t] = "enter_err"]
    /\ UNCHANGED <<ERROR_TYPES, builtins_ns, sys_stderr, host_out, clsVars, prev, code, ip,
                   static_res, pending, old_err, local_vars, report>>

\* redirect_stderr.__enter__, and the fresh local_vars dict.
EnterStderr(t) ==
    /\ pc[t] = "enter_err"
    /\ old_err' = [old_err EXCEPT ![t] = sys_stderr]
    /\ sys_stderr' = t
    /\ local_vars' = [local_vars EXCEPT ![t] = {}]
    /\ ip' = [ip EXCEPT ![t] = 1]
    /\ pc' = [pc EXCEPT ![t] = "exec"]
    /\ UNCHANGED <<ERROR_TYPES, builtins_ns, sys_stdout, host_out, clsVars, prev, code,
                   static_res, result, pending, old_out, elapsed, stdout_capture,
                   stderr_capture, report>>

\* ---------------------------------------------------- exec(code, {}, local_vars)

\* A name read at the top level of the inspected code is looked up in
\* local_vars, then in the globals dict ({}: always empty), then in builtins.
VisibleAtTop(t) == local_vars[t] \cup builtins_ns

\* A name read inside a function body is looked up in the function's own
\* locals, then in the globals dict ({}), then in builtins: never in local_vars.
VisibleInFunction == builtins_ns

\* The fault a body statement raises in the current state, or None.
StmtFault(t, stmt) ==
    CASE stmt = "use" /\ "x" \notin VisibleAtTop(t) -> Some(Exc("NameError"))
      [] stmt = "useleak" /\ "leak" \notin VisibleAtTop(t) -> Some(Exc("NameError"))
      [] stmt = "patch" /\ "TypeError" \notin DOMAIN ERROR_TYPES -> Some(Exc("KeyError"))
      [] stmt = "defcall" /\ "f" \notin VisibleInFunction -> Some(Exc("NameError"))
      [] OTHER -> None

\* The fault exec() raises when it compiles the source.
compile_fault(c) ==
    IF c.parse = "LateSyntaxError"
    THEN [type |-> "SyntaxError", msg |-> "'return' outside function"]
    ELSE Exc(c.parse)

\* exec() fails to compile the source: the fault is raised inside the with block.
ExecCompileFail(t) ==
    /\ pc[t] = "exec"
    /\ code[t].parse # "ok"
    /\ pending' = [pending EXCEPT ![t] = Some(compile_fault(code[t]))]
    /\ elapsed' = [elapsed EXCEPT ![t] = Tick(@)]
    /\ pc' = [pc EXCEPT ![t] = "exit_err"]
    /\ UNCHANGED <<procVars, clsVars, prev, code, ip, static_res, result, old_out, old_err,
                   local_vars, stdout_capture, stderr_capture, report>>

\* exec() runs the next statement of the body.
ExecStmt(t) ==
    /\ pc[t] = "exec"
    /\ code[t].parse = "ok"
    /\ ip[t] <= Len(code[t].body)
    /\ LET stmt == code[t].body[ip[t]]
           fault == StmtFault(t, stmt)
           toOut == fault = None /\ stmt \in {"print", "use", "useleak"}
           toErr == stmt = "eprint"
       IN  /\ local_vars' =
                [local_vars EXCEPT ![t] =
                    IF stmt = "assign" THEN @ \cup {"x"}
                    ELSE IF stmt = "defcall" THEN @ \cup {"f"}
                    ELSE @]
           /\ builtins_ns' =
                IF stmt = "setbuiltin" THEN builtins_ns \cup {"leak"} ELSE builtins_ns
           /\ ERROR_TYPES' =
                IF stmt = "patch" /\ fault = None
                THEN [k \in DOMAIN ERROR_TYPES \ {"TypeError"} |-> ERROR_TYPES[k]]
                ELSE ERROR_TYPES
           /\ stdout_capture' =
                IF toOut /\ sys_stdout # HostStream
                THEN [stdout_capture EXCEPT ![sys_stdout] = Append(@, t)]
                ELSE stdout_capture
           /\ stderr_capture' =
                IF toErr /\ sys_stderr # HostStream
                THEN [stderr_capture EXCEPT ![sys_stderr] = Append(@, t)]
                ELSE stderr_capture
           /\ host_out' =
                IF (toOut /\ sys_stdout = HostStream) \/ (toErr /\ sys_stderr = HostStream)
                THEN host_out \cup {t}
                ELSE host_out
           /\ IF fault = None
              THEN /\ ip' = [ip EXCEPT ![t] = @ + 1]
                   /\ UNCHANGED <<pc, pending>>
              ELSE /\ pending' = [pending EXCEPT ![t] = fault]
                   /\ pc' = [pc EXCEPT ![t] = "exit_err"]
                   /\ UNCHANGED ip
    /\ elapsed' = [elapsed EXCEPT ![t] = Tick(@)]
    /\ UNCHANGED <<sys_stdout, sys_stderr, clsVars, prev, code, static_res, result, old_out,
                   old_err, report>>

AtFinal(t) == pc[t] = "exec" /\ code[t].parse = "ok" /\ ip[t] > Len(code[t].body)

\* The inspected code is in its endless loop: time passes, exec() goes on.
ExecLoop(t) ==
    /\ AtFinal(t)
    /\ code[t].final = "loop"
    /\ elapsed' = [elapsed EXCEPT ![t] = Tick(@)]
    /\ UNCHANGED <<procVars, clsVars, prev, pc, code, ip, static_res, result, pending, old_out,
                   old_err, local_vars, stdout_capture, stderr_capture, report>>

\* The inspected code raises.
ExecRaise(t) ==
    /\ AtFinal(t)
    /\ code[t].final \in RaisedKinds
    /\ pending' = [pending EXCEPT ![t] = Some(Exc(code[t].final))]
    /\ elapsed' = [elapsed EXCEPT ![t] = Tick(@)]
    /\ pc' = [pc EXCEPT ![t] = "exit_err"]
    /\ UNCHANGED <<procVars, clsVars, prev, code, ip, static_res, result, old_out, old_err,
                   local_vars, stdout_capture, stderr_capture, report>>

\* exec() returns: execution_time is taken and execution_result updated,
\* still inside the with block.
ExecDone(t) ==
    /\ AtFinal(t)
    /\ code[t].final = "none"
    /\ result' =
         [result EXCEPT ![t] =
             [@ EXCEPT !.success = TRUE,
                       !.output = Some(stdout_capture[t]),
                       !.runtime = Some(elapsed[t])]]
    /\ pc' = [pc EXCEPT ![t] = "exit_err"]
    /\ UNCHANGED <<procVars, clsVars, prev, code, ip, static_res, pending, old_out, old_err,
                   elapsed, local_vars, stdout_capture, stderr_capture, report>>

\* redirect_stderr.__exit__: sys.stderr is set back to the saved target.
ExitStderr(t) ==
    /\ pc[t] = "exit_err"
    /\ sys_stderr' = old_err[t]
    /\ pc' = [pc EXCEPT ![t] = "exit_out"]
    /\ UNCHANGED <<ERROR_TYPES, builtins_ns, sys_stdout, host_out, clsVars, prev, code, ip,
                   static_res, result, pending, old_out, old_err, elapsed, local_vars,
                   stdout_capture, stderr_capture, report>>

\* redirect_stdout.__exit__.
ExitStdout(t) ==
    /\ pc[t] = "exit_out"
    /\ sys_stdout' = old_out[t]
    /\ pc' = [pc EXCEPT ![t] = "rt_end"]
    /\ UNCHANGED <<ERROR_TYPES, builtins_ns, sys_stderr, host_out, clsVars, prev, code, ip,
                   static_res, result, pending, old_out, old_err, elapsed, local_vars,
                   stdout_capture, stderr_capture, report>>

\* The fault record gone wrong: the traceback is taken once the except
\* clause has ended, when no exception is being handled any more.
error_record_late(e, message) ==
    [type |-> e.type, message |-> message, traceback |-> format_exc(None)]

\* The fault record of `except Exception as e`, given str(e).
error_record(e, message) ==
    [type |-> e.type, message |-> message, traceback |-> format_exc(Some(e))]

\* The end of runtime_execution: its `except Exception` clause and its return.
\* A fault that is no Exception, or one str(e) raises, leaves the function.
RuntimeEnd(t) ==
    /\ pc[t] = "rt_end"
    /\ IF pending[t] = None
       THEN /\ pc' = [pc EXCEPT ![t] = "classify"]
            /\ UNCHANGED <<result, pending>>
       ELSE LET e == pending[t][1]
                message == str(e)
            IN  IF ~IsException(e)
                THEN /\ pc' = [pc EXCEPT ![t] = "raised"]
                     /\ UNCHANGED <<result, pending>>
                ELSE IF message.ok
                THEN /\ result' =
                          [result EXCEPT ![t] =
                              [@ EXCEPT !.error = Some(error_record(e, message.val)),
                                        !.runtime = Some(elapsed[t])]]
                     /\ pending' = [pending EXCEPT ![t] = None]
                     /\ pc' = [pc EXCEPT ![t] = "classify"]
                ELSE /\ pending' = [pending EXCEPT ![t] = Some(message.exc)]
                     /\ pc' = [pc EXCEPT ![t] =
                                  IF IsException(message.exc) THEN "handler" ELSE "raised"]
                     /\ UNCHANGED result
    /\ UNCHANGED <<procVars, clsVars, prev, code, ip, static_res, old_out, old_err, elapsed,
                   local_vars, stdout_capture, stderr_capture, report>>

\* The check for runtime errors after runtime_execution returned: the fault
\* is classified, suggestions are generated, error_details is attached. A
\* fault raised here goes to the `except Exception` clause.
ClassifyPhase(t) ==
    /\ pc[t] = "classify"
    /\ IF ~result[t].success /\ "error" \in DOMAIN result[t]
       THEN IF result[t].error = None
            THEN \* error_info['type'] of None
                 /\ pending' = [pending EXCEPT ![t] = Some(Exc("TypeError"))]
                 /\ pc' = [pc EXCEPT ![t] = "handler"]
                 /\ UNCHANGED result
            ELSE LET error_info == result[t].error[1]
                     c == classify_error(rebuilt_error(error_info), None)
                 IN  IF c.ok
                     THEN /\ result' =
                               [result EXCEPT ![t] =
                                   [error_details |->
                                       [classification |-> c.val,
                                        suggested_fixes |-> analyze_and_suggest_fix(c.val)]]
                                   @@ @]
                          /\ pc' = [pc EXCEPT ![t] = "assemble"]
                          /\ UNCHANGED pending
                     ELSE /\ pending' = [pending EXCEPT ![t] = Some(c.exc)]
                          /\ pc' = [pc EXCEPT ![t] =
                                       IF IsException(c.exc) THEN "handler" ELSE "raised"]
                          /\ UNCHANGED result
       ELSE /\ pc' = [pc EXCEPT ![t] = "assemble"]
            /\ UNCHANGED <<result, pending>>
    /\ UNCHANGED <<procVars, clsVars, prev, code, ip, static_res, old_out, old_err, elapsed,
                   local_vars, stdout_capture, stderr_capture, report>>

\* `except Exception as runtime_error`: the runtime result is replaced by the
\* classification of the fault. A fault of classify_error leaves the call.
HandlerPhase(t) ==
    /\ pc[t] = "handler"
    /\ LET c == classify_error(pending[t][1], pending[t])
       IN  IF c.ok
           THEN /\ result' = [result EXCEPT ![t] = [error |-> Some(c.val)]]
                /\ pending' = [pending EXCEPT ![t] = None]
                /\ pc' = [pc EXCEPT ![t] = "assemble"]
           ELSE /\ pending' = [pending EXCEPT ![t] = Some(c.exc)]
                /\ pc' = [pc EXCEPT ![t] = "raised"]
                /\ UNCHANGED result
    /\ UNCHANGED <<procVars, clsVars, prev, code, ip, static_res, old_out, old_err, elapsed,
                   local_vars, stdout_capture, stderr_capture, report>>

\* return {'static_analysis': ..., 'runtime_analysis': ...}
Return(t) ==
    /\ pc[t] = "assemble"
    /\ report' =
         [report EXCEPT ![t] =
             Some([static_analysis |-> static_res[t], runtime_analysis |-> result[t]])]
    /\ pc' = [pc EXCEPT ![t] = "returned"]
    /\ UNCHANGED <<procVars, clsVars, prev, code, ip, static_res, result, pending, old_out,
                   old_err, elapsed, local_vars, stdout_capture, stderr_capture>>

\* The caller is done with the report (main() prints it and goes on to its
\* next scenario): the call's objects are garbage.
Discard(t) ==
    /\ pc[t] = "returned"
    /\ pc' = [pc EXCEPT ![t] = "idle"]
    /\ code' = [code EXCEPT ![t] = NoSource]
    /\ ip' = [ip EXCEPT ![t] = 1]
    /\ static_res' = [static_res EXCEPT ![t] = None]
    /\ result' = [result EXCEPT ![t] = None]
    /\ elapsed' = [elapsed EXCEPT ![t] = 0]
    /\ local_vars' = [local_vars EXCEPT ![t] = {}]
    /\ stdout_capture' = [stdout_capture EXCEPT ![t] = <<>>]
    /\ stderr_capture' = [stderr_capture EXCEPT ![t] = <<>>]
    /\ report' = [report EXCEPT ![t] = None]
    /\ prev' = [prev EXCEPT ![t] = None]
    /\ UNCHANGED <<procVars, clsVars, pending, old_out, old_err>>

\* The host inspects the same source once more: the report of the call before
\* is kept to compare with.
Again(t) ==
    /\ pc[t] = "returned"
    /\ prev' = [prev EXCEPT ![t] = report[t]]
    /\ pc' = [pc EXCEPT ![t] = "static"]
    /\ ip' = [ip EXCEPT ![t] = 1]
    /\ static_res' = [static_res EXCEPT ![t] = None]
    /\ result' = [result EXCEPT ![t] = None]
    /\ elapsed' = [elapsed EXCEPT ![t] = 0]
    /\ local_vars' = [local_vars EXCEPT ![t] = {}]
    /\ report' = [report EXCEPT ![t] = None]
    /\ UNCHANGED <<procVars, clsVars, code, pending, old_out, old_err, stdout_capture,
                   stderr_capture>>

Step(t) ==
    \/ pc[t] = "idle" /\ \E src \in Sources : Call(t, src)
    \/ StaticPhase(t)
    \/ RuntimeBegin(t)
    \/ EnterStderr(t)
    \/ ExecCompileFail(t)
    \/ ExecStmt(t)
    \/ ExecLoop(t)
    \/ ExecRaise(t)
    \/ ExecDone(t)
    \/ ExitStderr(t)
    \/ ExitStdout(t)
    \/ RuntimeEnd(t)
    \/ ClassifyPhase(t)
    \/ HandlerPhase(t)
    \/ Return(t)
    \/ Discard(t)
    \/ Again(t)

\* The inspections of one host thread, one after the other.
Next == \E t \in SeqThreads : Step(t)

Spec == Init /\ [][Next]_vars

\* ------------------------------------------------ classify_error, called directly

\* The text of a fault handed to classify_error.
Messages == {"message", "division by zero", ""}

\* The faults classify_error is applied to: an exception of any class the
\* model knows, or the str instance comprehensive_inspection builds.
ClassifyInputs == [type : ExcKinds \cup {"str"}, msg : Messages]

\* classify_error(error), outside of any except clause or inside the one
\* that caught `error`.
ClassifyCall(error, inHandler) ==
    /\ carg' = Some(error)
    /\ cret' = Some(classify_error(error, IF inHandler THEN Some(error) ELSE None))
    /\ UNCHANGED <<procVars, callVars, sarg, sret, static_arg, static_ret>>

\* The classifications analyze_and_suggest_fix is applied to: those
\* classify_error returns.
SuggestInputs ==
    {classify_error(error, None).val :
        error \in {e \in ClassifyInputs : classify_error(e, None).ok}}

\* analyze_and_suggest_fix(code, error_info), called directly.
SuggestCall(error_info) ==
    /\ sarg' = Some(error_info)
    /\ sret' = Some(analyze_and_suggest_fix(error_info))
    /\ UNCHANGED <<procVars, callVars, carg, cret, static_arg, static_ret>>

NextClassify ==
    \/ \E error \in ClassifyInputs, inHandler \in BOOLEAN : ClassifyCall(error, inHandler)
    \/ \E error_info \in SuggestInputs : SuggestCall(error_info)

SpecClassify == Init /\ [][NextClassify]_vars

\* ----------------------------------------------- static_analysis, called directly

\* The sources static_analysis is applied to: bodies of structural statements.
StaticSources ==
    [parse : {"ok"}, pos : {<<None, None>>}, body : SeqsUpTo(StructStmts, MaxStmts),
     final : {"none"}]

\* static_analysis(code), called directly.
StaticCall(c) ==
    /\ static_arg' = Some(c)
    /\ static_ret' = Some(static_analysis(c))
    /\ UNCHANGED <<procVars, callVars, carg, cret, sarg, sret>>

NextStatic == \E c \in StaticSources : StaticCall(c)

SpecStatic == Init /\ [][NextStatic]_vars

\* ------------------------------------------------------------------- claims

Returned(t) == pc[t] = "returned"
\* The 'runtime_analysis' section of the report thread t's call returned.
RuntimeOf(t) == report[t][1].runtime_analysis
HasDetails(ra) == "error_details" \in DOMAIN ra
\* The runtime section reports no success and records a fault.
NotSuccessful(ra) == ~("success" \in DOMAIN ra /\ ra.success)
FaultRecorded(ra) == "error" \in DOMAIN ra /\ ra.error # None

\* C1: every call of comprehensive_inspection ends by returning (it never
\* raises to its caller), and the report it returns has both the
\* 'static_analysis' and the 'runtime_analysis' section.
C1_NeverRaises ==
    \A t \in Threads :
        /\ pc[t] # "raised"
        /\ Returned(t) =>
              {"static_analysis", "runtime_analysis"} \subseteq DOMAIN report[t][1]

\* C2: the runtime phase is ended when the time budget has elapsed: no
\* execution is still running after more than the default timeout.
C2_TimeoutEnforced ==
    \A t \in Threads : elapsed[t] > DefaultTimeout => pc[t] # "exec"

\* C3: when the runtime section of a returned report records a fault whose
\* kind K is a key of the taxonomy table, the report carries error_details
\* whose classification has type K and the category and severity of K's entry.
C3_ClassificationOfKind ==
    \A t \in Threads :
        (Returned(t) /\ NotSuccessful(RuntimeOf(t)) /\ FaultRecorded(RuntimeOf(t))
            /\ RuntimeOf(t).error[1].type \in TableKinds)
        => /\ HasDetails(RuntimeOf(t))
           /\ LET K == RuntimeOf(t).error[1].type
                  cls == RuntimeOf(t).error_details.classification
              IN  /\ cls.type = K
                  /\ cls.category = ErrorTypesTable[K].category
                  /\ cls.severity = ErrorTypesTable[K].severity

\* The kinds analyze_and_suggest_fix has a template of their own for.
TemplateKinds == {"TypeError", "ValueError", "IndexError", "KeyError", "ZeroDivisionError"}

\* C4: when the runtime section of a returned report records a fault of a
\* kind that has a remediation template of its own, the suggested_fixes of
\* the report are that template and not the generic fallback; a division by
\* zero yields the 'Add zero division check' suggestion.
C4_TemplateOfKind ==
    \A t \in Threads :
        (Returned(t) /\ NotSuccessful(RuntimeOf(t)) /\ FaultRecorded(RuntimeOf(t))
            /\ RuntimeOf(t).error[1].type \in TemplateKinds)
        => /\ HasDetails(RuntimeOf(t))
           /\ LET K == RuntimeOf(t).error[1].type
                  fixes == RuntimeOf(t).error_details.suggested_fixes
              IN  /\ fixes # <<GenericSuggestion>>
                  /\ fixes = analyze_and_suggest_fix([type |-> K])
                  /\ K = "ZeroDivisionError" => fixes[1].fix = "Add zero division check"

\* C5: classify_error is total: applied to a fault of any kind it returns a
\* classification, and for a kind that is not a key of ERROR_TYPES that
\* classification has category 'Unknown', severity 'low' and general_advice
\* 'Unexpected error occurred.'.
C5_ClassifyTotal ==
    cret # None =>
        /\ cret[1].ok
        /\ carg[1].type \notin DOMAIN ERROR_TYPES =>
              /\ cret[1].val.category = "Unknown"
              /\ cret[1].val.severity = "low"
              /\ cret[1].val.general_advice = "Unexpected error occurred."

\* The taxonomy of the specification (its section 4.2): the kind of fault,
\* then the category and the severity it is given.
SpecTaxonomy ==
    {<<"SyntaxError", "Syntax", "critical">>,
     <<"TypeError", "Type Mismatch", "high">>,
     <<"IndexError", "Indexing", "high">>,
     <<"KeyError", "Dictionary", "high">>,
     <<"ZeroDivisionError", "Arithmetic", "high">>,
     <<"FileNotFoundError", "File System", "high">>,
     <<"MemoryError", "Resource", "critical">>,
     <<"NameError", "Reference", "high">>,
     <<"AttributeError", "Attribute", "medium">>}

\* C6: classify_error applied to a fault of a kind the specification's
\* taxonomy lists returns a classification of that kind with exactly the
\* category and severity the taxonomy gives for it.
C6_TaxonomyAsSpecified ==
    cret # None =>
        \A row \in SpecTaxonomy :
            carg[1].type = row[1] =>
                /\ cret[1].ok
                /\ cret[1].val.type = row[1]
                /\ cret[1].val.category = row[2]
                /\ cret[1].val.severity = row[3]

\* C6's case: a missing-attribute fault has been classified.
C6_Witness ==
    /\ cret # None
    /\ carg[1].type = "AttributeError"
    /\ cret[1].ok
    /\ cret[1].val.category = "Attribute"

\* C7: a fault of the kind Timeout is classified with category 'Resource' and
\* severity 'critical'.
C7_TimeoutInTaxonomy ==
    (cret # None /\ carg[1].type \in {"Timeout", "TimeoutError"}) =>
        /\ cret[1].ok
        /\ cret[1].val.category = "Resource"
        /\ cret[1].val.severity = "critical"

\* C8: in every returned report the runtime section contains error_details
\* if and only if it reports no success and records a fault.
C8_DetailsIffFault ==
    \A t \in Threads :
        Returned(t) =>
            (HasDetails(RuntimeOf(t))
                <=> (NotSuccessful(RuntimeOf(t)) /\ FaultRecorded(RuntimeOf(t))))

\* C9: when exec() is about to run the first statement of an inspected
\* source, no name is visible to it: nothing an earlier inspection defined or
\* wrote, in its namespace or through the builtins module, carries over.
C9_NothingCarriesOver ==
    \A t \in Threads : (pc[t] = "exec" /\ ip[t] = 1) => VisibleAtTop(t) = {}

\* C10: the classifier table is never changed by the inspected code: it is
\* what the class statement set it to.
C10_TableUnchanged == ERROR_TYPES = ErrorTypesTable

\* ------------------------------------------ inspections in two host threads

\* The sources the two threads inspect: they write to stdout or to stderr,
\* then end or divide by zero.
ConcSources ==
    [parse : {"ok"}, pos : {<<None, None>>}, body : SeqsUpTo({"print", "eprint"}, 1),
     final : {"none", "ZeroDivisionError"}]

\* One call of comprehensive_inspection in thread t, from the call to its return.
ConcStep(t) ==
    \/ pc[t] = "idle" /\ \E src \in ConcSources : Call(t, src)
    \/ StaticPhase(t)
    \/ RuntimeBegin(t)
    \/ EnterStderr(t)
    \/ ExecStmt(t)
    \/ ExecRaise(t)
    \/ ExecDone(t)
    \/ ExitStderr(t)
    \/ ExitStdout(t)
    \/ RuntimeEnd(t)
    \/ ClassifyPhase(t)
    \/ Return(t)

\* Two host threads, each making one call, their steps interleaved.
NextConc == \E t \in Threads : ConcStep(t)

SpecConc == Init /\ [][NextConc]_vars

\* Every thread is outside of comprehensive_inspection.
AllReturned == \A t \in Threads : pc[t] \in {"idle", "returned", "raised"}

\* The text in a buffer was all written by thread t's inspected code.
OnlyFrom(t, text) == \A i \in 1..Len(text) : text[i] = t

\* C11: when two inspections run in different threads, the capture buffers of
\* each call hold only text its own inspected code wrote, and so does the
\* output of the report it returns: text of one is never captured by the other.
C11_NoCrossCapture ==
    \A t \in Threads :
        /\ OnlyFrom(t, stdout_capture[t])
        /\ OnlyFrom(t, stderr_capture[t])
        /\ (Returned(t) /\ "output" \in DOMAIN RuntimeOf(t) /\ RuntimeOf(t).output # None)
              => OnlyFrom(t, RuntimeOf(t).output[1])

\* What C12 compares of a report: its static section, the success flag of
\* its runtime section and the classification of the fault, if any.
SuccessFlag(ra) == "success" \in DOMAIN ra /\ ra.success
ClassificationOf(ra) ==
    IF HasDetails(ra) THEN Some(ra.error_details.classification)
    ELSE IF "success" \notin DOMAIN ra THEN ra.error
    ELSE None

\* C12: a source inspected twice in the same process gets, the second time,
\* the same static section, the same success flag and the same classification
\* of its fault as the first time, whatever the source wrote outside its
\* own namespace.
C12_SameReportTwice ==
    \A t \in Threads :
        (Returned(t) /\ prev[t] # None) =>
            /\ report[t][1].static_analysis = prev[t][1].static_analysis
            /\ SuccessFlag(RuntimeOf(t)) = SuccessFlag(prev[t][1].runtime_analysis)
            /\ ClassificationOf(RuntimeOf(t)) = ClassificationOf(prev[t][1].runtime_analysis)

\* The captured text a runtime section carries: 'output' is its only field
\* that is ever set from a capture buffer.
ReportedText(ra) ==
    IF "output" \in DOMAIN ra /\ ra.output # None THEN ra.output[1] ELSE <<>>

\* C13: the runtime section of a returned report holds all the text the
\* inspected code wrote: what it wrote to stdout is its output, and there is
\* room in it for what it wrote to stderr too, whether the code ended or
\* faulted after writing.
C13_AllTextReported ==
    \A t \in Threads :
        Returned(t) =>
            /\ stdout_capture[t] # <<>> =>
                  /\ "output" \in DOMAIN RuntimeOf(t)
                  /\ RuntimeOf(t).output = Some(stdout_capture[t])
            /\ Len(ReportedText(RuntimeOf(t)))
                  >= Len(stdout_capture[t]) + Len(stderr_capture[t])

\* The names a statement binds at the top level of a standalone program.
BindsStandalone(stmt) ==
    CASE stmt = "assign" -> {"x"}
      [] stmt = "setbuiltin" -> {"leak"}
      [] stmt = "defcall" -> {"f"}
      [] OTHER -> {}

\* The body runs without raising as a standalone program (python file.py),
\* `bound` being the names bound so far: there the module's namespace is the
\* globals of its functions, so a top-level function can call itself. The
\* patch statement is left out: it needs the inspector module to be loaded.
RECURSIVE RunsStandalone(_, _)
RunsStandalone(body, bound) ==
    IF body = <<>> THEN TRUE
    ELSE /\ Head(body) # "patch"
         /\ Head(body) = "use" => "x" \in bound
         /\ Head(body) = "useleak" => "leak" \in bound
         /\ RunsStandalone(Tail(body), bound \cup BindsStandalone(Head(body)))

\* The source parses, and ends without raising when run standalone.
CorrectStandalone(src) ==
    src.parse = "ok" /\ src.final = "none" /\ RunsStandalone(src.body, {})

\* C14: a source that parses and ends without raising as a standalone program
\* (one that defines a top-level function calling itself included) is
\* reported with syntax_valid true, success true, no fault and no error_details.
C14_CorrectSourceSucceeds ==
    \A t \in Threads :
        (Returned(t) /\ CorrectStandalone(code[t])) =>
            /\ "syntax_valid" \in DOMAIN report[t][1].static_analysis
            /\ report[t][1].static_analysis.syntax_valid
            /\ SuccessFlag(RuntimeOf(t))
            /\ ~FaultRecorded(RuntimeOf(t))
            /\ ~HasDetails(RuntimeOf(t))

\* The parser rejects the source with a syntax fault.
ParserRejects(src) == src.parse \in {"SyntaxError", "IndentationError"}

\* The static section says the syntax is invalid and gives the message, the
\* line and the offset of the fault ast.parse raised for the source.
SyntaxFaultReported(sa, src) ==
    /\ "syntax_valid" \in DOMAIN sa
    /\ ~sa.syntax_valid
    /\ sa.syntax_error =
          [message |-> MessageOf(src.parse), line |-> src.pos[1], offset |-> src.pos[2]]

C16_NeverEmpty ==
    /\ [](sret # None =>
            /\ Len(sret[1]) >= 1
            /\ sarg[1].type \notin TemplateKinds =>
                  /\ Len(sret[1]) = 1
                  /\ sret[1] = <<GenericSuggestion>>
                  /\ sret[1][1].fix = "Review and debug code")
    /\ [][(sarg # None /\ sarg' = sarg) => sret' = sret]_vars

\* C16's case: the classification of a missing-attribute fault, a kind
\* without a rule of its own, got the generic suggestion.
C16_Witness ==
    /\ sret # None
    /\ sarg[1].type = "AttributeError"
    /\ sret[1][1].fix = "Review and debug code"

\* What C17 says a statement adds to the score: one per conditional, loop,
\* exception-handling clause (the try and its except clause are both taken
\* as such) and pattern-match arm, n-1 per boolean combination of n operands,
\* and nothing for anything else.
ClaimedWeight(stmt) ==
    CASE stmt = "if" -> 1
      [] stmt = "ifor" -> 1 + (2 - 1)
      [] stmt = "and3" -> 3 - 1
      [] stmt = "for" -> 1
      [] stmt = "try1" -> 2
      [] stmt = "match1" -> 1
      [] stmt = "match2" -> 2
      [] OTHER -> 0

RECURSIVE ClaimedScore(_)
ClaimedScore(body) ==
    IF body = <<>> THEN 1 ELSE ClaimedWeight(Head(body)) + ClaimedScore(Tail(body))

\* C17: the complexity_score static_analysis returns for a parsed source is
\* 1 plus one for each conditional, loop, exception-handling clause and
\* pattern-match arm, plus n-1 for each boolean combination of n operands,
\* nothing else being counted: a match statement of k arms adds k.
C17_ScoreAsSpecified ==
    (static_ret # None /\ static_ret[1].ok /\ static_ret[1].val.syntax_valid) =>
        static_ret[1].val.complexity_score = ClaimedScore(static_arg[1].body)

\* C18: the classification attached to a runtime fault has the message and
\* the traceback recorded for that fault in the runtime section's error.
C18_MessageAndTraceKept ==
    \A t \in Threads :
        (Returned(t) /\ HasDetails(RuntimeOf(t))) =>
            LET cls == RuntimeOf(t).error_details.classification
                err == RuntimeOf(t).error[1]
            IN  /\ cls.message = err.message
                /\ cls.traceback = err.traceback

\* The half of C18 the code keeps: the message.
C18_MessageKept ==
    \A t \in Threads :
        (Returned(t) /\ HasDetails(RuntimeOf(t))) =>
            RuntimeOf(t).error_details.classification.message
                = RuntimeOf(t).error[1].message

\* C19: once every inspection has returned, whether they ran one after the
\* other or interleaved in two threads, sys.stdout and sys.stderr are the
\* host's own streams again; no redirection is left in place.
C19_StreamsRestored ==
    AllReturned => (sys_stdout = HostStream /\ sys_stderr = HostStream)

\* Where a call is once the runtime phase has started.
RuntimePcs ==
    {"enter_err", "exec", "exit_err", "exit_out", "rt_end", "classify", "handler",
     "assemble", "returned"}

\* What the static phase makes of a source: the structure, the syntax
\* fault, or the classification of the fault static_analysis raised.
StaticOutcome(src, sa) ==
    CASE src.parse \in {"ok", "LateSyntaxError"} ->
            "syntax_valid" \in DOMAIN sa /\ sa.syntax_valid
      [] src.parse \in {"SyntaxError", "IndentationError"} ->
            "syntax_valid" \in DOMAIN sa /\ ~sa.syntax_valid
      [] OTHER ->
            /\ DOMAIN sa = {"error"}
            /\ sa.error[1].type = src.parse

\* C20: within a call the static phase has produced its result before the
\* runtime phase starts; the runtime phase is started whatever that result
\* is (a call never ends before it); and the report returned carries the
\* static result as the static phase produced it.
C20_StaticThenRuntime ==
    \A t \in Threads :
        /\ pc[t] \in RuntimePcs =>
              (static_res[t] # None /\ StaticOutcome(code[t], static_res[t]))
        /\ pc[t] \in {"runtime", "static", "idle"} => result[t] = None
        /\ pc[t] \in {"raised", "returned"} => result[t] # None
        /\ Returned(t) => report[t][1].static_analysis = static_res[t]

\* C20's case: a call whose static phase ended in a classified fault has
\* gone through its runtime phase and returned.
C20_Witness ==
    \E t \in Threads :
        /\ Returned(t)
        /\ code[t].parse = "RecursionError"
        /\ "error" \in DOMAIN report[t][1].static_analysis
        /\ FaultRecorded(RuntimeOf(t))

\* runtime_execution has just returned in thread t: result[t] is what it returned.
RuntimeReturned(t) == pc[t] = "classify"

\* The error field holds the type, the message and the traceback of one fault.
FaultPopulated(error) ==
    /\ error # None
    /\ DOMAIN error[1] = {"type", "message", "traceback"}
    /\ error[1].type \in ExcKinds
    /\ error[1].traceback.text = "Traceback (most recent call last)"
    /\ error[1].traceback.exc = error[1].type

\* C21: every result runtime_execution returns has its 'runtime' field set,
\* and is of one of two shapes: success true and error None, or success false
\* and error holding the type, message and traceback of the fault.
C21_ResultShape ==
    \A t \in Threads :
        RuntimeReturned(t) =>
            /\ result[t].runtime # None
            /\ \/ result[t].success /\ result[t].error = None
               \/ ~result[t].success /\ FaultPopulated(result[t].error)

\* C21's case: runtime_execution has returned the result of a source that
\* printed and then raised, with the time up to the fault.
C21_Witness ==
    \E t \in Threads :
        /\ RuntimeReturned(t)
        /\ ~result[t].success
        /\ result[t].error # None
        /\ result[t].error[1].type = "ZeroDivisionError"
        /\ result[t].runtime # None
        /\ stdout_capture[t] # <<>>

====
